---- MODULE Spec2Model ----
(***************************************************************************)
(* Model of the transfer watcher bot (src/bot.py): the two persisted JSON  *)
(* documents, the notification sender with its 429 retry, and the poll     *)
(* loop, together with the environment the loop talks to (the transfers    *)
(* table, the notification endpoint, the wall clock, process crashes).     *)
(***************************************************************************)
EXTENDS Integers, Sequences, FiniteSets, TLC

(* ---------------------------------------------------------------------- *)
(* Bounds of the model                                                     *)
(* ---------------------------------------------------------------------- *)
\* number of distinct transaction hashes
NumIds == 3
\* number of rows the transfers table comes to hold while crashes are explored
MaxRows == 2
\* timestamps (wall clock and created_at) range over 1..MaxTime
MaxTime == 2
\* the query's .limit(10) (src/bot.py:165), scaled down
Limit == 2
\* the cleanup threshold 1000 (src/bot.py:200), scaled down
PruneThreshold == 1
\* the cleanup's slice size 500 (src/bot.py:201), scaled down
PruneKeep == 1
\* largest number of 429 answers the endpoint gives within one attempt
Max429 == 2
\* the retry_after value a 429 body carries when it carries one
RetryAfterGiven == 5
\* longest text of a document found on disk that the bot did not write itself
MaxDocLen == 3

(* ---------------------------------------------------------------------- *)
(* Program constants                                                       *)
(* ---------------------------------------------------------------------- *)
\* await asyncio.sleep(3) before each notification
ThrottleDelay == 3
\* await asyncio.sleep(10) between cycles and after a polling error
CycleDelay == 10
\* .get('retry_after', 30)
DefaultRetryAfter == 30

Ids == 1..NumIds
Times == 1..MaxTime
\* Python's None for a timestamp (falsy, as in "if new_max_time:")
None == 0

VARIABLES
    \* environment
    clock,              \* the latest datetime.now(timezone.utc) the bot has read
    source,             \* transfers table: created_at of each tx_hash, None if no row
    \* persisted documents
    state_file,         \* STATE_FILE
    processed_txs_file, \* PROCESSED_TXS_FILE
    \* poll_supabase_for_transfers
    pc,                 \* position of the coroutine
    processed_txs,
    last_polled_time,
    data,               \* response.data of the current cycle
    i,                  \* index of the current row in data
    new_max_time,
    \* send_telegram_notification
    retry_after,
    last_resp,          \* resp of the latest session.post of the latest attempt
    \* history of the current run
    order,              \* processed_txs in order of insertion
    dispatched,         \* tx_hashes whose notification the loop has started
    posts,              \* session.post calls of the current attempt
    n429,               \* 429 answers of the current attempt
    slept,              \* seconds slept since the bot's last request (query or post)
    cycleTimes,         \* created_at of the rows processed in the current cycle
    startCursor,        \* last_polled_time the run started with
    persistedAtBoot     \* load_processed_txs() as it was when the run started

vars == <<clock, source, state_file, processed_txs_file, pc, processed_txs,
          last_polled_time, data, i, new_max_time, retry_after, last_resp, order,
          dispatched, posts, n429, slept, cycleTimes, startCursor,
          persistedAtBoot>>

envVars == <<clock, source>>
fileVars == <<state_file, processed_txs_file>>
loopVars == <<processed_txs, last_polled_time, data, i, new_max_time>>
sendVars == <<retry_after, posts, n429, last_resp>>
bootVars == <<startCursor, persistedAtBoot>>

(* ---------------------------------------------------------------------- *)
(* Persisted documents: a file is absent or holds a JSON text, modelled    *)
(* as a sequence of tokens <<kind, value>>.                                *)
(* ---------------------------------------------------------------------- *)
NoFile == [exists |-> FALSE, text |-> <<>>]
FileWith(text) == [exists |-> TRUE, text |-> text]

Range(s) == {s[k] : k \in 1..Len(s)}
Max(S) == CHOOSE x \in S : \A y \in S : y <= x
Min2(a, b) == IF a <= b THEN a ELSE b

\* list(S): the elements of a set in one iteration order
RECURSIVE list(_)
list(S) == IF S = {} THEN <<>>
           ELSE LET x == CHOOSE y \in S : \A z \in S : y <= z
                IN <<x>> \o list(S \ {x})

\* dump_state with the timestamp written under another key than load_state reads
dump_state_other_key(timestamp_str) ==
    <<  <<"{", 0>>, <<"last_polled", timestamp_str>>, <<"}", 0>>  >>

\* json.dump({"last_polled_time": timestamp_str}, f)
dump_state(timestamp_str) ==
    <<  <<"{", 0>>, <<"last_polled_time", timestamp_str>>, <<"}", 0>>  >>

\* json.dump(list(processed_txs), f)
dump_processed_txs(txs) ==
    <<  <<"[", 0>>  >> \o [k \in 1..Cardinality(txs) |-> <<"str", list(txs)[k]>>]
        \o <<  <<"]", 0>>  >>

\* json.load succeeds on an object text
IsJsonObject(text) ==
    /\ Len(text) >= 2
    /\ text[1] = <<"{", 0>>
    /\ text[Len(text)] = <<"}", 0>>
    /\ \A k \in 2..(Len(text) - 1) : text[k][1] \notin {"{", "}", "[", "]", "str"}

\* json.load succeeds on an array text
IsJsonArray(text) ==
    /\ Len(text) >= 2
    /\ text[1] = <<"[", 0>>
    /\ text[Len(text)] = <<"]", 0>>
    /\ \A k \in 2..(Len(text) - 1) : text[k][1] = "str"

load_state(f) ==
    IF ~f.exists THEN None
    ELSE IF IsJsonObject(f.text)
         THEN LET hits == {k \in 2..(Len(f.text) - 1) : f.text[k][1] = "last_polled_time"}
              IN IF hits = {} THEN None ELSE f.text[Max(hits)][2]
         ELSE None

save_state(timestamp_str) == FileWith(dump_state(timestamp_str))

\* json.load succeeds on a text that is one string
IsJsonString(text) == Len(text) = 1 /\ text[1][1] = "str"

\* a string that is no row's tx_hash: a key of a JSON object, a character
NotAHash == 0

\* set(json.load(f)): the elements of a list, the keys of a dict, the
\* characters of a str; anything else raises and the except returns set()
load_processed_txs(f) ==
    IF ~f.exists THEN {}
    ELSE IF IsJsonArray(f.text)
         THEN {f.text[k][2] : k \in 2..(Len(f.text) - 1)}
    ELSE IF IsJsonObject(f.text)
         THEN {NotAHash : k \in 2..(Len(f.text) - 1)}
    ELSE IF IsJsonString(f.text)
         THEN {NotAHash}
    ELSE {}

save_processed_txs(txs) == FileWith(dump_processed_txs(txs))

\* what open(path, "w") followed by an interrupted write leaves on disk
TornWrites(text) == {FileWith(SubSeq(text, 1, k)) : k \in 0..(Len(text) - 1)}

\* insertion order of the set built by set(json.load(f))
LoadOrder(f) ==
    IF f.exists /\ IsJsonArray(f.text)
    THEN [k \in 1..(Len(f.text) - 2) |-> f.text[k + 1][2]]
    ELSE list(load_processed_txs(f))

\* no session.post has been answered yet
NoResponse == [status |-> -1, body |-> "none"]

(* ---------------------------------------------------------------------- *)
(* Initial state: a fresh deployment, process not yet started              *)
(* ---------------------------------------------------------------------- *)
InitMemory ==
    /\ clock = 1
    /\ source = [id \in Ids |-> None]
    /\ pc = "down"
    /\ processed_txs = {}
    /\ last_polled_time = None
    /\ data = <<>>
    /\ i = 0
    /\ new_max_time = None
    /\ retry_after = 0
    /\ last_resp = NoResponse
    /\ order = <<>>
    /\ dispatched = {}
    /\ posts = 0
    /\ n429 = 0
    /\ slept = 0
    /\ cycleTimes = {}
    /\ startCursor = None
    /\ persistedAtBoot = {}

Init ==
    /\ InitMemory
    /\ state_file = NoFile
    /\ processed_txs_file = NoFile

(* ---------------------------------------------------------------------- *)
(* Environment                                                             *)
(* ---------------------------------------------------------------------- *)
\* a transfer row is inserted into the table; tx_hash k names the k-th row
Insert(id, t) ==
    /\ source[id] = None
    /\ \A other \in Ids : other < id => source[other] # None
    /\ source' = [source EXCEPT ![id] = t]
    /\ UNCHANGED <<clock, fileVars, pc, loopVars, sendVars, order, dispatched, slept, cycleTimes, bootVars>>

(* ---------------------------------------------------------------------- *)
(* Startup of poll_supabase_for_transfers                                  *)
(* ---------------------------------------------------------------------- *)
\* the values datetime.now(timezone.utc) may return: the clock does not go back
Now == {t \in Times : t >= clock}

Start ==
    /\ pc = "down"
    /\ \E current_time \in Now :
          /\ clock' = current_time
          /\ last_polled_time' = current_time
          /\ state_file' = save_state(current_time)
          /\ startCursor' = current_time
    /\ processed_txs' = load_processed_txs(processed_txs_file)
    /\ order' = LoadOrder(processed_txs_file)
    /\ pc' = "query"
    /\ persistedAtBoot' = load_processed_txs(processed_txs_file)
    /\ UNCHANGED <<source, processed_txs_file, data, i, new_max_time, sendVars,
                   dispatched, slept, cycleTimes>>

(* ---------------------------------------------------------------------- *)
(* The query: created_at >= cursor, ascending by created_at, limited.      *)
(* The order among rows of equal created_at is the table's choice.         *)
(* ---------------------------------------------------------------------- *)
Row(id) == [tx_hash |-> id, created_at |-> source[id]]

\* .gte("created_at", last_polled_time)
Matching(cursor) == {id \in Ids : source[id] # None /\ source[id] >= cursor}

\* .limit(Limit) without the .order: any Limit of the matching rows, in any order
QueryResults_unordered(cursor) ==
    LET M == Matching(cursor)
        n == Min2(Limit, Cardinality(M))
    IN {s \in [1..n -> M] : \A a, b \in 1..n : a < b => s[a] # s[b]}

\* .order("created_at", desc=False).limit(Limit): every answer the table may give
QueryResults(cursor) ==
    LET M == Matching(cursor)
        n == Min2(Limit, Cardinality(M))
    IN {s \in [1..n -> M] :
            /\ \A a, b \in 1..n : a < b => (s[a] # s[b] /\ source[s[a]] <= source[s[b]])
            /\ \A m \in M \ Range(s) : \A a \in 1..n : source[s[a]] <= source[m]}

\* the query is executed and answers
QueryOk ==
    /\ pc = "query"
    /\ \E s \in QueryResults(last_polled_time) :
          /\ data' = [k \in 1..Len(s) |-> Row(s[k])]
          /\ IF Len(s) > 0
             THEN pc' = "row" /\ i' = 1
             ELSE pc' = "sleep" /\ i' = 0
    /\ new_max_time' = None
    /\ cycleTimes' = {}
    /\ slept' = 0
    /\ UNCHANGED <<envVars, fileVars, processed_txs, last_polled_time, sendVars,
                   order, dispatched, bootVars>>

\* an exception leaves the try block: control is in "except Exception as e",
\* the locals of the cycle are dead
Raised ==
    /\ pc' = "except"
    /\ data' = <<>>
    /\ i' = 0
    /\ new_max_time' = None
    /\ retry_after' = 0
    /\ posts' = 0
    /\ n429' = 0
    /\ last_resp' = NoResponse
    /\ cycleTimes' = {}
    /\ slept' = 0

\* query.execute() raises
QueryFail ==
    /\ pc = "query"
    /\ Raised
    /\ UNCHANGED <<envVars, fileVars, processed_txs, last_polled_time, order,
                   dispatched, bootVars>>

\* the except clause going on to the next cycle without its sleep
ExceptSleep_retries_at_once ==
    /\ pc = "except"
    /\ pc' = "query"
    /\ UNCHANGED <<envVars, fileVars, loopVars, sendVars, order, dispatched, slept, cycleTimes, bootVars>>

\* the except clause: print, then await asyncio.sleep(10), then the next cycle
ExceptSleep ==
    /\ pc = "except"
    /\ pc' = "query"
    /\ slept' = slept + CycleDelay
    /\ UNCHANGED <<envVars, fileVars, loopVars, sendVars, order, dispatched, cycleTimes, bootVars>>

\* the next cycle begun without the sleep
Sleep_requeries_at_once ==
    /\ pc = "sleep"
    /\ pc' = "query"
    /\ UNCHANGED <<envVars, fileVars, loopVars, sendVars, order, dispatched, slept, cycleTimes, bootVars>>

\* await asyncio.sleep(10) at the end of a cycle
Sleep ==
    /\ pc = "sleep"
    /\ pc' = "query"
    /\ slept' = slept + CycleDelay
    /\ UNCHANGED <<envVars, fileVars, loopVars, sendVars, order, dispatched, cycleTimes, bootVars>>

(* ---------------------------------------------------------------------- *)
(* One row of the batch                                                    *)
(* ---------------------------------------------------------------------- *)
AtRow == pc = "row" /\ i <= Len(data)
tx_hash == data[i].tx_hash

\* the membership test left out
AlreadyProcessed_never(h) == FALSE

\* "if tx_hash in processed_txs"
AlreadyProcessed(h) == h \in processed_txs

\* the row is skipped: continue
SkipRow ==
    /\ AtRow
    /\ AlreadyProcessed(tx_hash)
    /\ i' = i + 1
    /\ last_resp' = NoResponse
    /\ UNCHANGED <<envVars, fileVars, pc, processed_txs, last_polled_time, data,
                   new_max_time, retry_after, posts, n429, order, dispatched, slept,
                   cycleTimes, bootVars>>

\* "if retry_after > 0: await asyncio.sleep(retry_after)": the seconds slept after it
RateLimitWait(ra, sleptBefore) == IF ra > 0 THEN sleptBefore + ra ELSE sleptBefore

\* the tx_hash added to the set before the notification is sent
Throttle_marks_first ==
    /\ AtRow
    /\ ~AlreadyProcessed(tx_hash)
    /\ pc' = "post"
    /\ retry_after' = 0
    /\ slept' = RateLimitWait(0, slept + ThrottleDelay)
    /\ posts' = 0
    /\ n429' = 0
    /\ last_resp' = NoResponse
    /\ dispatched' = dispatched \cup {tx_hash}
    /\ processed_txs' = processed_txs \cup {tx_hash}
    /\ UNCHANGED <<envVars, fileVars, last_polled_time, data, i, new_max_time,
                   order, cycleTimes, bootVars>>

\* await asyncio.sleep(3), then send_telegram_notification(row) is entered
Throttle ==
    /\ AtRow
    /\ ~AlreadyProcessed(tx_hash)
    /\ pc' = "post"
    /\ retry_after' = 0
    /\ slept' = RateLimitWait(0, slept + ThrottleDelay)
    /\ posts' = 0
    /\ n429' = 0
    /\ last_resp' = NoResponse
    /\ dispatched' = dispatched \cup {tx_hash}
    /\ UNCHANGED <<envVars, fileVars, loopVars, order, cycleTimes, bootVars>>

(* ---------------------------------------------------------------------- *)
(* send_telegram_notification                                              *)
(* ---------------------------------------------------------------------- *)
\* status 0 stands for an exception raised by session.post
TransportError == 0
Responses ==
    {[status |-> st, body |-> "none"] : st \in {200, 500, TransportError}}
    \cup {[status |-> 429, body |-> b] :
             b \in {"retry_after", "no_retry_after", "not_json"}}

\* error_data.get('parameters', {}).get('retry_after', 30)
RetryAfterOf(resp) ==
    IF resp.body = "retry_after" THEN RetryAfterGiven ELSE DefaultRetryAfter

\* the 429 branch goes on to the recursive call: resp.json() did not raise
Retries(resp) == resp.status = 429 /\ resp.body # "not_json"

\* session.post and the branch on resp.status
Post(resp) ==
    /\ pc = "post"
    /\ resp.status = 429 => n429 < Max429
    /\ posts' = posts + 1
    /\ last_resp' = resp
    /\ n429' = IF resp.status = 429 THEN n429 + 1 ELSE n429
    /\ IF Retries(resp)
       THEN pc' = "backoff" /\ retry_after' = RetryAfterOf(resp)
       ELSE pc' = "mark" /\ retry_after' = 0
    /\ slept' = 0
    /\ UNCHANGED <<envVars, fileVars, loopVars, order, dispatched, cycleTimes,
                   bootVars>>

\* the wait left to run on its own while the loop goes on to the next row
Backoff_in_background ==
    /\ pc = "backoff"
    /\ slept' = RateLimitWait(retry_after, slept)
    /\ pc' = "row"
    /\ i' = i + 1
    /\ UNCHANGED <<envVars, fileVars, processed_txs, last_polled_time, data,
                   new_max_time, sendVars, order, dispatched, cycleTimes, bootVars>>

\* the recursive call's "if retry_after > 0: await asyncio.sleep(retry_after)"
Backoff ==
    /\ pc = "backoff"
    /\ slept' = RateLimitWait(retry_after, slept)
    /\ pc' = "post"
    /\ UNCHANGED <<envVars, fileVars, loopVars, sendVars, order, dispatched, cycleTimes, bootVars>>

(* ---------------------------------------------------------------------- *)
(* After the send: mark as processed, track the newest created_at          *)
(* ---------------------------------------------------------------------- *)
\* NewMax with the comparison turned around
NewMax_smallest(ctime, cur) ==
    IF ctime # None /\ (cur = None \/ ctime < cur) THEN ctime ELSE cur

\* "if ctime and (new_max_time is None or ctime > new_max_time)"
NewMax(ctime, cur) ==
    IF ctime # None /\ (cur = None \/ ctime > cur) THEN ctime ELSE cur

\* the row marked as processed only when its notification was accepted
MarkProcessed_only_when_sent ==
    /\ pc = "mark"
    /\ IF last_resp.status = 200
       THEN /\ processed_txs' = processed_txs \cup {tx_hash}
            /\ order' = IF tx_hash \in processed_txs THEN order ELSE Append(order, tx_hash)
            /\ processed_txs_file' = save_processed_txs(processed_txs')
            /\ new_max_time' = NewMax(data[i].created_at, new_max_time)
            /\ cycleTimes' = cycleTimes \cup {data[i].created_at}
       ELSE UNCHANGED <<processed_txs, order, processed_txs_file, new_max_time, cycleTimes>>
    /\ i' = i + 1
    /\ pc' = "row"
    /\ posts' = 0
    /\ n429' = 0
    /\ UNCHANGED <<envVars, state_file, last_polled_time, data, retry_after,
                   last_resp, dispatched, slept, bootVars>>

MarkProcessed ==
    /\ pc = "mark"
    /\ processed_txs' = processed_txs \cup {tx_hash}
    /\ order' = IF tx_hash \in processed_txs THEN order ELSE Append(order, tx_hash)
    /\ processed_txs_file' = save_processed_txs(processed_txs')
    /\ new_max_time' = NewMax(data[i].created_at, new_max_time)
    /\ cycleTimes' = cycleTimes \cup {data[i].created_at}
    /\ i' = i + 1
    /\ pc' = "row"
    /\ posts' = 0
    /\ n429' = 0
    /\ UNCHANGED <<envVars, state_file, last_polled_time, data, retry_after,
                   last_resp, dispatched, slept, bootVars>>

(* ---------------------------------------------------------------------- *)
(* After the batch: advance the cursor, clean up the processed set         *)
(* ---------------------------------------------------------------------- *)
BatchDone == pc = "row" /\ i > Len(data)

\* "if new_max_time: last_polled_time = new_max_time; save_state(...)"
AdvanceCursor ==
    /\ BatchDone
    /\ IF new_max_time # None
       THEN /\ last_polled_time' = new_max_time
            /\ state_file' = save_state(last_polled_time')
       ELSE UNCHANGED <<last_polled_time, state_file>>
    /\ pc' = "prune"
    /\ data' = <<>>
    /\ i' = 0
    /\ new_max_time' = None
    /\ last_resp' = NoResponse
    /\ UNCHANGED <<envVars, processed_txs_file, processed_txs, retry_after, posts,
                   n429, order, dispatched, slept, cycleTimes, bootVars>>

\* set(list(txs)[-PruneKeep:]): a set's iteration order is not its insertion
\* order, so the slice may be any PruneKeep of its elements
PruneSlices(txs) ==
    {K \in SUBSET txs : Cardinality(K) = Min2(PruneKeep, Cardinality(txs))}

NeedsPrune == Cardinality(processed_txs) > PruneThreshold

Keep(seq, K) == LET In(x) == x \in K IN SelectSeq(seq, In)

Prune ==
    /\ pc = "prune"
    /\ IF NeedsPrune
       THEN \E K \in PruneSlices(processed_txs) :
               /\ processed_txs' = K
               /\ order' = Keep(order, K)
               /\ processed_txs_file' = save_processed_txs(K)
       ELSE UNCHANGED <<processed_txs, order, processed_txs_file>>
    /\ pc' = "sleep"
    /\ cycleTimes' = {}
    /\ UNCHANGED <<envVars, state_file, last_polled_time, data, i, new_max_time,
                   sendVars, dispatched, slept, bootVars>>

(* ---------------------------------------------------------------------- *)
(* A save raises: open(path, "w") fails, the file stays as it was, and the  *)
(* exception is caught by the except clause of the loop                    *)
(* ---------------------------------------------------------------------- *)
\* save_processed_txs raises, after "processed_txs.add(tx_hash)" or after the
\* cleanup's assignment
SaveProcessedTxsRaises ==
    /\ \/ /\ pc = "mark"
          /\ processed_txs' = processed_txs \cup {tx_hash}
          /\ order' = IF tx_hash \in processed_txs THEN order ELSE Append(order, tx_hash)
       \/ /\ pc = "prune"
          /\ NeedsPrune
          /\ \E K \in PruneSlices(processed_txs) :
                /\ processed_txs' = K
                /\ order' = Keep(order, K)
    /\ Raised
    /\ UNCHANGED <<envVars, fileVars, last_polled_time, dispatched, bootVars>>

\* save_state raises, after "last_polled_time = new_max_time"
SaveStateRaises ==
    /\ BatchDone
    /\ new_max_time # None
    /\ last_polled_time' = new_max_time
    /\ Raised
    /\ UNCHANGED <<envVars, fileVars, processed_txs, order, dispatched, bootVars>>

(* ---------------------------------------------------------------------- *)
(* The process dies: memory is lost, the files stay                        *)
(* ---------------------------------------------------------------------- *)
MemoryLost ==
    /\ pc' = "down"
    /\ processed_txs' = {}
    /\ last_polled_time' = None
    /\ data' = <<>>
    /\ i' = 0
    /\ new_max_time' = None
    /\ retry_after' = 0
    /\ last_resp' = NoResponse
    /\ order' = <<>>
    /\ dispatched' = {}
    /\ posts' = 0
    /\ n429' = 0
    /\ slept' = 0
    /\ cycleTimes' = {}
    /\ startCursor' = None
    /\ persistedAtBoot' = {}

Crash ==
    /\ pc # "down"
    /\ MemoryLost
    /\ UNCHANGED <<envVars, fileVars>>

\* the timestamps the next save_state call may write
PendingCursorWrites ==
    IF pc = "down" THEN Now
    ELSE IF BatchDone /\ new_max_time # None THEN {new_max_time}
    ELSE {}

\* the process dies inside save_state, after open(STATE_FILE, "w")
CrashInSaveState ==
    /\ \E timestamp_str \in PendingCursorWrites :
          state_file' \in TornWrites(dump_state(timestamp_str))
    /\ MemoryLost
    /\ UNCHANGED <<envVars, processed_txs_file>>

\* the sets the next save_processed_txs call may write
PendingTxsWrites ==
    IF pc = "mark" THEN {processed_txs \cup {tx_hash}}
    ELSE IF pc = "prune" /\ NeedsPrune THEN PruneSlices(processed_txs)
    ELSE {}

\* the process dies inside save_processed_txs, after open(PROCESSED_TXS_FILE, 'w')
CrashInSaveTxs ==
    /\ \E K \in PendingTxsWrites :
          processed_txs_file' \in TornWrites(dump_processed_txs(K))
    /\ MemoryLost
    /\ UNCHANGED <<envVars, state_file>>

Next ==
    \/ \E id \in 1..MaxRows, t \in Times : Insert(id, t)
    \/ Start
    \/ QueryOk
    \/ QueryFail
    \/ ExceptSleep
    \/ Sleep
    \/ SkipRow
    \/ Throttle
    \/ \E resp \in Responses : Post(resp)
    \/ Backoff
    \/ MarkProcessed
    \/ AdvanceCursor
    \/ Prune
    \/ SaveProcessedTxsRaises
    \/ SaveStateRaises
    \/ Crash
    \/ CrashInSaveState
    \/ CrashInSaveTxs

Spec == Init /\ [][Next]_vars

(* ---------------------------------------------------------------------- *)
(* A single run over a table filled before startup, with the scheduling    *)
(* the event loop gives: every sleep ends, the table eventually answers,   *)
(* every send eventually gets a non-429 response.                          *)
(* ---------------------------------------------------------------------- *)
Preload(id, t) == pc = "down" /\ Insert(id, t)

Non429 == {resp \in Responses : resp.status # 429}

LiveNext ==
    \/ \E id \in Ids, t \in Times : Preload(id, t)
    \/ Start
    \/ QueryOk
    \/ QueryFail
    \/ ExceptSleep
    \/ Sleep
    \/ SkipRow
    \/ Throttle
    \/ \E resp \in Responses : Post(resp)
    \/ Backoff
    \/ MarkProcessed
    \/ AdvanceCursor
    \/ Prune

LiveSpec ==
    /\ Init
    /\ [][LiveNext]_vars
    /\ WF_vars(Start)
    /\ SF_vars(QueryOk)
    /\ WF_vars(Sleep)
    /\ WF_vars(ExceptSleep)
    /\ WF_vars(SkipRow)
    /\ WF_vars(Throttle)
    /\ SF_vars(\E resp \in Non429 : Post(resp))
    /\ WF_vars(Backoff)
    /\ WF_vars(MarkProcessed)
    /\ WF_vars(AdvanceCursor)
    /\ WF_vars(Prune)

(* ---------------------------------------------------------------------- *)
(* The bot over a table that gains rows in the order of their created_at:  *)
(* a new row is not older than the cursor the loop has reached nor than a  *)
(* row of the batch in progress (rows older than the run's first cursor    *)
(* are never queried and may come at any time)                             *)
(* ---------------------------------------------------------------------- *)
InsertInOrder(id, t) ==
    /\ \/ t < startCursor
       \/ /\ t >= last_polled_time
          /\ \A k \in 1..Len(data) : t >= data[k].created_at
    /\ Insert(id, t)

OrderedNext ==
    \/ \E id \in Ids, t \in Times : InsertInOrder(id, t)
    \/ Start
    \/ QueryOk
    \/ QueryFail
    \/ ExceptSleep
    \/ Sleep
    \/ SkipRow
    \/ Throttle
    \/ \E resp \in Responses : Post(resp)
    \/ Backoff
    \/ MarkProcessed
    \/ AdvanceCursor
    \/ Prune
    \/ SaveProcessedTxsRaises
    \/ SaveStateRaises
    \/ Crash
    \/ CrashInSaveState
    \/ CrashInSaveTxs

OrderedSpec == Init /\ [][OrderedNext]_vars

(* ---------------------------------------------------------------------- *)
(* Startup over documents the bot did not write: STATE_FILE or             *)
(* PROCESSED_TXS_FILE holds any text of at most MaxDocLen tokens            *)
(* ---------------------------------------------------------------------- *)
DocTokens ==
    {<<"{", 0>>, <<"}", 0>>, <<"[", 0>>, <<"]", 0>>}
        \cup {<<"str", id>> : id \in 1..MaxRows}
        \cup {<<"last_polled_time", t>> : t \in Times}

Docs == {NoFile} \cup UNION {{FileWith(text) : text \in [1..n -> DocTokens]} : n \in 0..MaxDocLen}

LoadInit ==
    /\ InitMemory
    /\ \E d \in Docs :
          \/ state_file = d /\ processed_txs_file = NoFile
          \/ state_file = NoFile /\ processed_txs_file = d

LoadNext ==
    \/ Start
    \/ Crash

LoadSpec == LoadInit /\ [][LoadNext]_vars

(* ---------------------------------------------------------------------- *)
(* Properties                                                              *)
(* ---------------------------------------------------------------------- *)
Running == pc # "down"
InSend == pc \in {"post", "backoff", "mark"}

\* C1: within one run the loop starts the notification of a tx_hash at most
\* once, whatever the table returns and also across cleanups of the set.
C1_NoDuplicateSends ==
    [][(AtRow /\ pc' = "post") => tx_hash \notin dispatched]_vars

\* C2: every row of the table whose created_at is at or after the cursor the
\* run started with is eventually passed to send_telegram_notification.
C2_NoLostRecords ==
    \A id \in Ids :
        (Running /\ source[id] # None /\ source[id] >= startCursor)
            ~> (id \in dispatched)

\* C3: when STATE_FILE holds a readable cursor at startup, the loop starts
\* from that cursor; the current time is used only when there is none.
C3_ResumeFromPersistedCursor ==
    [][(pc = "down" /\ pc' = "query")
          => last_polled_time' = IF load_state(state_file) # None
                                 THEN load_state(state_file)
                                 ELSE clock']_vars

\* C4: no identifier of the processed set that was on disk when the run
\* started is ever passed to send_telegram_notification in that run.
C4_NoResendAfterRestart == InSend => tx_hash \notin persistedAtBoot

\* C5: after a cycle that processed at least one row, STATE_FILE holds the
\* largest created_at among the rows processed in that cycle; and no step of
\* a running loop lowers the cursor STATE_FILE holds.
C5_CursorMonotone ==
    /\ []((pc = "prune" /\ cycleTimes # {})
            => load_state(state_file) = Max(cycleTimes))
    /\ [][(Running /\ pc' # "down")
            => load_state(state_file') >= load_state(state_file)]_vars

\* a cycle has processed a row and moved the cursor past its startup value
C5_Witness ==
    /\ pc = "prune"
    /\ cycleTimes # {}
    /\ load_state(state_file) = Max(cycleTimes)
    /\ load_state(state_file) > startCursor

\* C6: when the set exceeds the threshold at the end of a batch, the cleanup
\* leaves exactly PruneKeep identifiers, the most recently inserted ones, and
\* that set is what PROCESSED_TXS_FILE holds.
MostRecent(seq, n) == {seq[k] : k \in (Len(seq) - n + 1)..Len(seq)}
C6_PruneKeepsMostRecent ==
    [][(pc = "prune" /\ pc' = "sleep" /\ NeedsPrune)
          => /\ Cardinality(processed_txs') = PruneKeep
             /\ processed_txs' = MostRecent(order, PruneKeep)
             /\ load_processed_txs(processed_txs_file') = processed_txs']_vars

\* C7: after a crash inside save_state, load_state returns the cursor stored
\* before the write or the cursor being written.
C7_CrashSafeCursorWrite ==
    [][(pc' = "down" /\ state_file' # state_file)
          => load_state(state_file') \in {load_state(state_file)} \cup PendingCursorWrites]_vars

\* C8: every completed save_state(x) leaves a file from which load_state
\* returns x, and every completed save_processed_txs(S) leaves a file from
\* which load_processed_txs returns exactly S, also when S is smaller than
\* what the file held before.
C8_RoundTrip ==
    [][/\ (state_file' # state_file /\ pc' # "down")
            => load_state(state_file') = last_polled_time'
       /\ (processed_txs_file' # processed_txs_file /\ pc' # "down")
            => load_processed_txs(processed_txs_file') = processed_txs']_vars

\* the cursor was advanced and saved, the set was cleaned up and saved over a
\* larger one, and both files load to the values in memory
C8_Witness ==
    /\ pc = "sleep"
    /\ last_polled_time > startCursor
    /\ load_state(state_file) = last_polled_time
    /\ \E id \in dispatched : id \notin processed_txs
    /\ processed_txs # {}
    /\ load_processed_txs(processed_txs_file) = processed_txs

\* C9: an attempt ends only on a non-429 answer, after one post per 429
\* answer plus one; each retry is posted after a sleep of the retry_after
\* of the 429 before it; the tx_hash is not in the set before the attempt ends.
C9_RateLimitRetry ==
    /\ pc = "mark" => posts = n429 + 1
    /\ (pc = "post" /\ posts > 0) => (slept = retry_after /\ retry_after > 0)
    /\ InSend => tx_hash \notin processed_txs

\* C10: while a notification is in progress its tx_hash is not in
\* processed_txs; a row whose tx_hash is in processed_txs is passed over
\* without a notification, a post or a sleep.
C10_DedupGuard ==
    /\ [](InSend => tx_hash \notin processed_txs)
    /\ [][(AtRow /\ AlreadyProcessed(tx_hash) /\ pc' # "down")
            => /\ pc' = "row"
               /\ i' \in {i, i + 1}
               /\ dispatched' = dispatched
               /\ posts' = posts
               /\ slept' = slept]_vars

\* the first row of the batch was in processed_txs and has been passed over
C10_Witness ==
    /\ pc = "row"
    /\ i = 2
    /\ cycleTimes = {}
    /\ data[1].tx_hash \in processed_txs
    /\ data[1].tx_hash \notin dispatched

\* C11: when the query answers with no rows, the loop goes to its sleep with
\* the cursor, the processed set and both files as they were and without a
\* notification; the sleep lasts CycleDelay seconds, changes none of them
\* either, and is followed by the next query.
C11_EmptyBatch ==
    /\ [][(pc = "query" /\ pc' \notin {"query", "down", "except"} /\ data' = <<>>)
            => /\ pc' = "sleep"
               /\ UNCHANGED <<last_polled_time, processed_txs, fileVars, dispatched, posts>>]_vars
    /\ [][(pc = "sleep" /\ pc' \notin {"sleep", "down"})
            => /\ pc' = "query"
               /\ slept' = slept + CycleDelay
               /\ UNCHANGED <<last_polled_time, processed_txs, fileVars, dispatched, posts>>]_vars

\* the table holds rows, none at or after the cursor: the query has answered
\* with no rows and the loop is in its sleep, nothing sent, nothing changed
C11_Witness ==
    /\ pc = "sleep"
    /\ \E id \in Ids : source[id] # None
    /\ Matching(last_polled_time) = {}
    /\ dispatched = {}
    /\ processed_txs = {}
    /\ last_polled_time = startCursor
    /\ load_state(state_file) = startCursor

\* C12: a query that raises leaves the cursor, the processed set and both
\* files as they were and sends nothing; wherever in the cycle an exception
\* was raised, the loop can always go on from its except clause, and the one
\* thing it does there is to sleep CycleDelay seconds and issue the next query.
C12_SourceFailureIsolation ==
    /\ [][(pc = "query" /\ pc' = "except")
            => UNCHANGED <<last_polled_time, processed_txs, fileVars, dispatched, posts>>]_vars
    /\ [](pc = "except" => ENABLED ExceptSleep)
    /\ [][(pc = "except" /\ pc' \notin {"except", "down"})
            => /\ pc' = "query"
               /\ slept' = slept + CycleDelay
               /\ UNCHANGED <<last_polled_time, processed_txs, fileVars, dispatched, posts>>]_vars

\* a save raised part-way through a batch (the set in memory is ahead of the
\* file), and the loop has slept and is about to query again
C12_Witness ==
    /\ pc = "query"
    /\ slept = CycleDelay
    /\ dispatched # {}
    /\ processed_txs # load_processed_txs(processed_txs_file)

\* the latest attempt ended on a status other than 200 and 429, or on an
\* exception raised by session.post
SendFailed == last_resp.status \notin {200, 429, NoResponse.status}

\* C13: a send that ends in failure still returns to the loop, which adds the
\* tx_hash to processed_txs, saves the whole set at once, takes the row's
\* created_at into new_max_time and goes on to the next row of the batch.
C13_MarkProcessedOnFailure ==
    /\ [][(pc = "post" /\ SendFailed' /\ pc' \notin {"post", "down"}) => pc' = "mark"]_vars
    /\ [][(pc = "mark" /\ SendFailed /\ pc' \notin {"mark", "down", "except"})
            => /\ processed_txs' = processed_txs \cup {tx_hash}
               /\ load_processed_txs(processed_txs_file') = processed_txs'
               /\ new_max_time' = Max({new_max_time, data[i].created_at})
               /\ pc' = "row"
               /\ data' = data
               /\ i' = i + 1]_vars

\* the first row's send failed; its tx_hash is in the set and in the file, its
\* created_at is the cycle's maximum so far, and the loop is at the second row
C13_Witness ==
    /\ AtRow
    /\ i = 2
    /\ SendFailed
    /\ data[1].tx_hash \in processed_txs
    /\ data[1].tx_hash \in load_processed_txs(processed_txs_file)
    /\ new_max_time = data[1].created_at

\* a document of the form save_state writes: an object with the cursor
WellFormedState(f) ==
    /\ f.exists
    /\ IsJsonObject(f.text)
    /\ \E k \in 1..Len(f.text) : f.text[k][1] = "last_polled_time"

\* a document of the form save_processed_txs writes: an array of strings
WellFormedTxs(f) == f.exists /\ IsJsonArray(f.text)

\* C14: for a STATE_FILE that is missing or not of the form save_state writes
\* load_state returns None; for a PROCESSED_TXS_FILE that is missing or not of
\* the form save_processed_txs writes load_processed_txs returns the empty
\* set; and the startup over such documents reaches the first query, with an
\* empty processed set when PROCESSED_TXS_FILE was such a document.
C14_CorruptionRecovered ==
    /\ [](~WellFormedState(state_file) => load_state(state_file) = None)
    /\ [](~WellFormedTxs(processed_txs_file)
            => load_processed_txs(processed_txs_file) = {})
    /\ [][(pc = "down" /\ pc' # "down")
            => /\ pc' = "query"
               /\ ~WellFormedTxs(processed_txs_file) => processed_txs' = {}]_vars

\* C15: in a run without crash, no query returns a row that an earlier cycle
\* of the run has processed (at a query, the rows processed by the earlier
\* cycles are the dispatched ones).
C15_NoRecordQueriedTwice ==
    [][(pc = "query" /\ pc' = "row")
          => \A k \in 1..Len(data') : data'[k].tx_hash \notin dispatched]_vars

\* C16: a 429 answer whose body has no retry_after or cannot be parsed sets
\* the wait to DefaultRetryAfter and does not end the attempt; the sender
\* then sleeps DefaultRetryAfter seconds and posts the same row again.
C16_DefaultBackoff ==
    /\ [][(/\ pc = "post"
           /\ posts' = posts + 1
           /\ last_resp'.status = 429
           /\ last_resp'.body \in {"no_retry_after", "not_json"})
            => /\ pc' = "backoff"
               /\ retry_after' = DefaultRetryAfter]_vars
    /\ [][(pc = "backoff" /\ retry_after = DefaultRetryAfter /\ pc' \notin {"backoff", "down"})
            => /\ pc' = "post"
               /\ slept' = slept + DefaultRetryAfter
               /\ data' = data
               /\ i' = i]_vars

\* C17: passing over a row whose tx_hash is in processed_txs changes neither
\* new_max_time nor the cursor nor a file and sends nothing; and once every
\* row of a batch has been passed over (no row of the cycle was marked), the
\* rest of the cycle leaves the cursor and both files as they were.
C17_SkippedDoNotMoveCursor ==
    /\ [][(AtRow /\ AlreadyProcessed(tx_hash) /\ pc' # "down")
            => UNCHANGED <<new_max_time, last_polled_time, fileVars, dispatched>>]_vars
    /\ [][((BatchDone \/ pc = "prune") /\ cycleTimes = {} /\ pc' # "down")
            => UNCHANGED <<last_polled_time, fileVars, dispatched>>]_vars

InBatch == pc \in {"row", "post", "backoff", "mark"} /\ ~BatchDone

\* C18: one row is in progress at a time. While a send is in progress every
\* earlier row of the batch is already in processed_txs; a notification is
\* started only from between two rows, for the row at the loop's index, with
\* no post made yet; every post is for that row; the row's tx_hash is in
\* PROCESSED_TXS_FILE before the index moves on; the index moves one row at a
\* time, and the batch is not replaced by a new query while rows are left.
C18_StrictlySequential ==
    /\ [](InSend => /\ i \in 1..Len(data)
                    /\ \A k \in 1..(i - 1) : data[k].tx_hash \in processed_txs)
    /\ [][(dispatched' # dispatched /\ pc' # "down")
            => /\ AtRow
               /\ pc' = "post"
               /\ posts' = 0
               /\ i' = i
               /\ dispatched' = dispatched \cup {tx_hash}]_vars
    /\ [][posts' > posts => (pc = "post" /\ data' = data /\ i' = i)]_vars
    /\ [][(pc = "mark" /\ pc' = "row")
            => /\ i' = i + 1
               /\ tx_hash \in load_processed_txs(processed_txs_file')]_vars
    /\ [][(InBatch /\ pc' \notin {"down", "except"})
            => /\ data' = data
               /\ i' \in {i, i + 1}
               /\ pc' \in {"row", "post", "backoff", "mark"}]_vars

\* the second row of a batch is being sent, after a 429, and the first row's
\* notification was started and its tx_hash saved before
C18_Witness ==
    /\ pc = "post"
    /\ i = 2
    /\ n429 > 0
    /\ data[1].tx_hash \in dispatched
    /\ data[1].tx_hash \in load_processed_txs(processed_txs_file)

\* C19: while the loop runs, every tx_hash in processed_txs or in
\* PROCESSED_TXS_FILE is one whose notification this run has started or one
\* the file held when the run started; a tx_hash enters processed_txs only
\* once its send has returned, after at least one post; and the death of the
\* process adds nothing to what the file holds.
C19_MembershipImpliesDispatch ==
    /\ [](Running => (processed_txs \cup load_processed_txs(processed_txs_file))
                        \subseteq (persistedAtBoot \cup dispatched))
    /\ [][(Running /\ pc' # "down" /\ ~(processed_txs' \subseteq processed_txs))
            => /\ pc = "mark"
               /\ posts >= 1
               /\ tx_hash \in dispatched
               /\ processed_txs' = processed_txs \cup {tx_hash}]_vars
    /\ [][pc' = "down" => load_processed_txs(processed_txs_file')
                            \subseteq load_processed_txs(processed_txs_file)]_vars

\* the set holds a tx_hash taken over from the file of an earlier run and not
\* sent in this run, and a tx_hash sent and added in this run
C19_Witness ==
    /\ Running
    /\ \E id \in processed_txs : id \in persistedAtBoot /\ id \notin dispatched
    /\ \E id \in processed_txs : id \in dispatched /\ id \notin persistedAtBoot
    /\ load_processed_txs(processed_txs_file) = processed_txs

\* C20: over a table that gains rows in the order of their created_at, every
\* row whose created_at is at or after the cursor the run started with and
\* before the cursor the loop has reached is a row whose notification has
\* been started, in this run or in the run that left its tx_hash in the file.
C20_CursorNeverPassesUndispatched ==
    Running =>
        \A id \in Ids :
            (source[id] # None /\ source[id] >= startCursor /\ source[id] < last_polled_time)
                => id \in (dispatched \cup persistedAtBoot)

\* more rows than one batch holds lie at or after the run's first cursor; a
\* full batch has been processed and the cursor moved on in memory, then
\* save_state raised and the cycle was aborted; one row lies before the
\* cursor, and a row at or after it has not been sent yet
C20_Witness ==
    /\ pc = "except"
    /\ Cardinality(Matching(startCursor)) > Limit
    /\ last_polled_time > startCursor
    /\ load_state(state_file) = startCursor
    /\ \E id \in dispatched : source[id] >= startCursor /\ source[id] < last_polled_time
    /\ \E id \in Matching(last_polled_time) : id \notin (dispatched \cup persistedAtBoot)
====
